---- MODULE Spec2Model ----
(***************************************************************************)
(* Offer de-duplication of LzxTools: title normalisation, perceptual-hash  *)
(* comparison and the greedy grouping loop of LzxScrapper._group           *)
(* (src/lzx_parser.py), the export helpers built on top of it, and the     *)
(* older group_entries / get_unique_offers / get_duplicated_offers of      *)
(* src/main.py.                                                            *)
(***************************************************************************)
EXTENDS Integers, Sequences, FiniteSets, TLC

VARIABLES
    entries,                \* the list of raw feed entries handed to the API
    require_same_price,     \* keyword argument of group
    similarity_threshold,   \* keyword argument of group (a rational num/den)
    pc,                     \* position inside group/_group
    remaining,              \* _group: wrapped entries not yet assigned
    groups,                 \* _group: groups emitted so far (raw entries)
    program,                \* which program runs: the LzxScrapper class or main.py
    unique,                 \* outcome of LzxScrapper.get_unique(entries)
    duplicates,             \* outcome of LzxScrapper.get_duplicates(entries)
    grouped_offers,         \* main.py: outcome of group_entries(entries)
    unique_offers,          \* main.py: outcome of get_unique_offers(grouped)
    duplicated_offers,      \* main.py: outcome of get_duplicated_offers(grouped)
    value,                  \* a title string
    normalized,             \* outcome of LzxEntry._normalize_title(value)
    cleaned,                \* outcome of main.remove_special_characters(value)
    hash_calls,             \* per entry: calls of imagehash.average_hash on its image
    heap,                   \* the list objects: heap[r] is the list with reference r
    input,                  \* reference of the list the caller passes as entries
    frame,                  \* local variables of the running group / group_entries
    results,                \* outcomes of the finished calls, oldest first
    scrapper,               \* which ScrapperBase subclass the run uses
    site,                   \* what the scraped web site serves
    disk,                   \* the cache file
    phase,                  \* no scrapper object, a live one, or one inside `with`
    cache_path,             \* whether the scrapper has a cache path
    cache,                  \* ScrapperBase.cache: None or a set of offers
    dirty,                  \* ScrapperBase._dirty
    last                    \* the last operation on the scrapper and its outcome

vars == <<entries, require_same_price, similarity_threshold, pc, remaining,
          groups, program, unique, duplicates, grouped_offers, unique_offers,
          duplicated_offers, value, normalized, cleaned, hash_calls,
          heap, input, frame, results, scrapper, site, disk, phase,
          cache_path, cache, dirty, last>>

groupVars == <<require_same_price, similarity_threshold, pc, remaining, groups>>
exportVars == <<unique, duplicates>>
mainVars == <<grouped_offers, unique_offers, duplicated_offers>>
normVars == <<value, normalized, cleaned>>
callVars == <<heap, input, frame, results>>
cacheVars == <<scrapper, site, disk, phase, cache_path, cache, dirty, last>>

-----------------------------------------------------------------------------
(* Bounds of the model *)

MaxEntries == 3
MaxTitleLen == 3

-----------------------------------------------------------------------------
(* Optional values: Python's None and "attribute absent" *)

None == <<>>
Some(x) == <<x>>
Get(o) == o[1]

(* Outcome of a call: not made yet, returned a value, or raised *)
NoCall == [status |-> "none"]
Returned(v) == [status |-> "returned", value |-> v]
Raised == [status |-> "raised"]

Range(s) == {s[i] : i \in DOMAIN s}

-----------------------------------------------------------------------------
(* Strings are sequences of characters *)

AsciiLower == {"a", "b"}
AsciiUpper == {"A", "B"}
AsciiDigit == {"7"}
\* "U+00C9" stands for a non-ASCII letter
OtherChars == {"!", " ", "U+00C9"}
Chars == AsciiLower \cup AsciiUpper \cup AsciiDigit \cup OtherChars

\* str.lower() on ASCII
Lower(c) ==
    CASE c = "A" -> "a"
      [] c = "B" -> "b"
      [] OTHER -> c

\* the character class [a-zA-Z0-9]
IsAsciiAlnum(c) == c \in AsciiLower \cup AsciiUpper \cup AsciiDigit

\* re.sub(r'[^a-zA-Z0-9]', '', value)
StripSpecial(s) == SelectSeq(s, IsAsciiAlnum)

LowerStr(s) == [i \in DOMAIN s |-> Lower(s[i])]

\* faulty variant: the result is not lower-cased
NormalizeNoLower(v) == StripSpecial(v)

\* LzxEntry._normalize_title
NormalizeTitle(v) == LowerStr(StripSpecial(v))

\* main.remove_special_characters
RemoveSpecialCharacters(input_string) == LowerStr(StripSpecial(input_string))

\* every string of at most MaxTitleLen characters
Strings == UNION {[1..n -> Chars] : n \in 0..MaxTitleLen}

-----------------------------------------------------------------------------
(* Images and perceptual hashes *)

IMAGE_HASH_SIZE == 16
\* number of bits of an average hash: hash.size of a 16 x 16 array
HashBits == IMAGE_HASH_SIZE * IMAGE_HASH_SIZE

\* IMAGE_SIMILARITY_THRESHOLD = 0.10
IMAGE_SIMILARITY_THRESHOLD == [num |-> 10, den |-> 100]

\* thresholds a caller passes: the default and one that is a whole number of bits
Thresholds == {IMAGE_SIMILARITY_THRESHOLD, [num |-> 25, den |-> 256]}

\* decodable images, and one whose pixel data cannot be loaded
Images == {"img0", "img25", "img26", "img64"}
BrokenImages == {"broken"}

\* imagehash.average_hash raises on an image it cannot load
HashFails(img) == img \in BrokenImages

\* imagehash.average_hash(image, 16): the set of bits that are 1
AverageHash(img) ==
    CASE img = "img0" -> {}
      [] img = "img25" -> 1..25
      [] img = "img26" -> 1..26
      [] img = "img64" -> 1..64

\* ImageHash.__sub__: the number of differing bits
HashDiff(h1, h2) == Cardinality((h1 \ h2) \cup (h2 \ h1))

\* faulty variant: strict comparison
DistWithinStrict(h1, h2, thr) == HashDiff(h1, h2) * thr.den < thr.num * HashBits

\* (base.image_hash - other.image_hash) / base.image_hash.hash.size <= threshold
DistWithin(h1, h2, thr) == HashDiff(h1, h2) * thr.den <= thr.num * HashBits

-----------------------------------------------------------------------------
(* Raw feed entries and their wrappers *)

TitleAa == <<"A", "!">>
Titlea == <<"a">>
Titleb == <<"b", " ">>

\* the entries a feed can deliver: one deal under two spellings with and
\* without image, near-identical and unreadable images of it, other or
\* missing prices, another deal with the same image or none
EntryDomain ==
    [title : {TitleAa, Titlea}, summary : {Some("10")}, image : {None, Some("img0")}]
    \cup [title : {Titlea}, summary : {Some("10")}, image : {Some("img25"), Some("img26")}]
    \cup [title : {Titlea}, summary : {Some("12")}, image : {Some("img0")}]
    \cup [title : {Titlea}, summary : {Some(""), None}, image : {None}]
    \cup [title : {Titlea}, summary : {Some("10")}, image : {Some("broken")}]
    \cup [title : {Titleb}, summary : {Some("10")}, image : {None, Some("img0")}]

\* an entry object: its position in the list is its identity
RawEntry(i, f) == [id |-> i, title |-> f.title, summary |-> f.summary, image |-> f.image]

EntryLists ==
    UNION {{[i \in 1..n |-> RawEntry(i, f[i])] : f \in [1..n -> EntryDomain]} :
           n \in 0..MaxEntries}

\* main.py gets the same entries, and one whose image is a quarter of the
\* bits away from img0
MainEntryDomain ==
    EntryDomain \cup [title : {Titlea}, summary : {Some("10")}, image : {Some("img64")}]

MainEntryLists ==
    UNION {{[i \in 1..n |-> RawEntry(i, f[i])] : f \in [1..n -> MainEntryDomain]} :
           n \in 0..MaxEntries}

\* FeedParserDict.__getattr__ raises AttributeError for a key the entry lacks
HasSummary(e) == e.summary # None

\* faulty variant: a failed hash leaves an all-zero hash behind
ComputeHashZeroOnFailure(image) ==
    IF image # None
    THEN IF HashFails(Get(image)) THEN Some({}) ELSE Some(AverageHash(Get(image)))
    ELSE None

\* LzxScrapper._compute_hash
ComputeHash(image) ==
    IF image # None
    THEN IF HashFails(Get(image)) THEN None ELSE Some(AverageHash(Get(image)))
    ELSE None

\* LzxEntry(...) followed by _compute_hash, for one entry
WrapEntry(e) ==
    [raw |-> e,
     normalized_title |-> NormalizeTitle(e.title),
     summary |-> Get(e.summary),
     image_hash |-> ComputeHash(e.image)]

\* LzxScrapper._wrap
Wrap(es) == [i \in DOMAIN es |-> WrapEntry(es[i])]

\* _wrap reads e.summary of every entry
WrapRaises(es) == \E i \in DOMAIN es : ~HasSummary(es[i])

-----------------------------------------------------------------------------
(* The loop body of LzxScrapper._group *)

\* faulty variant: the price is compared whatever require_same_price says
IsDuplicateAlwaysPrice(base, other, rsp, thr) ==
    IF base.normalized_title # other.normalized_title THEN FALSE
    ELSE IF base.summary # other.summary THEN FALSE
    ELSE IF base.image_hash # None /\ other.image_hash # None
         THEN DistWithin(Get(base.image_hash), Get(other.image_hash), thr)
         ELSE TRUE

\* faulty variant: an offer without image hash never matches one that has a hash
IsDuplicateHashRequired(base, other, rsp, thr) ==
    IF base.normalized_title # other.normalized_title THEN FALSE
    ELSE IF rsp /\ base.summary # other.summary THEN FALSE
    ELSE IF base.image_hash # None
         THEN /\ other.image_hash # None
              /\ DistWithin(Get(base.image_hash), Get(other.image_hash), thr)
         ELSE TRUE

\* the decision taken for `other` with `base` as seed
IsDuplicate(base, other, rsp, thr) ==
    IF base.normalized_title # other.normalized_title THEN FALSE
    ELSE IF rsp /\ base.summary # other.summary THEN FALSE
    ELSE IF base.image_hash # None /\ other.image_hash # None
         THEN DistWithin(Get(base.image_hash), Get(other.image_hash), thr)
         ELSE TRUE

Raws(ws) == [i \in DOMAIN ws |-> ws[i].raw]

\* faulty variant: joined offers are not taken out of the working list
ScanKeepJoined(rem, rsp, thr) ==
    LET base == rem[Len(rem)]
        rest == SubSeq(rem, 1, Len(rem) - 1)
        Joins(o) == IsDuplicate(base, o, rsp, thr)
    IN [group |-> <<base.raw>> \o Raws(SelectSeq(rest, Joins)),
        survivors |-> rest]

\* faulty variant: the seed goes back into the working list
ScanKeepSeed(rem, rsp, thr) ==
    LET base == rem[Len(rem)]
        rest == SubSeq(rem, 1, Len(rem) - 1)
        Joins(o) == IsDuplicate(base, o, rsp, thr)
        Stays(o) == ~IsDuplicate(base, o, rsp, thr)
    IN [group |-> <<base.raw>> \o Raws(SelectSeq(rest, Joins)),
        survivors |-> Append(SelectSeq(rest, Stays), base)]

\* one iteration: pop the seed, scan the others in order
Scan(rem, rsp, thr) ==
    LET base == rem[Len(rem)]
        rest == SubSeq(rem, 1, Len(rem) - 1)
        Joins(o) == IsDuplicate(base, o, rsp, thr)
        Stays(o) == ~IsDuplicate(base, o, rsp, thr)
    IN [group |-> <<base.raw>> \o Raws(SelectSeq(rest, Joins)),
        survivors |-> SelectSeq(rest, Stays)]

\* the while loop run to its end
RECURSIVE GroupLoop(_, _, _, _)
GroupLoop(rem, gs, rsp, thr) ==
    IF rem = <<>> THEN gs
    ELSE LET s == Scan(rem, rsp, thr)
         IN GroupLoop(s.survivors, Append(gs, s.group), rsp, thr)

\* faulty variant: the group list starts with an empty group
GroupResultSeeded(es, rsp, thr) ==
    IF es = <<>> THEN << <<>> >> ELSE GroupLoop(Wrap(es), <<>>, rsp, thr)

\* the value _group returns when it returns
GroupResult(es, rsp, thr) ==
    IF es = <<>> THEN <<>> ELSE GroupLoop(Wrap(es), <<>>, rsp, thr)

\* _group raises what _wrap raises, unless it returned before wrapping
GroupRaises(es) == es # <<>> /\ WrapRaises(es)

\* group(entries, require_same_price=rsp, similarity_threshold=thr) as one call
GroupOutcome(es, rsp, thr) ==
    IF GroupRaises(es) THEN Raised ELSE Returned(GroupResult(es, rsp, thr))

-----------------------------------------------------------------------------
(* Export of LzxScrapper *)

\* _entry_to_dict: the record made of an entry; `entry` stands for the link,
\* image reference and date copied from that entry
EntryToDict(e) == [entry |-> e.id, price |-> Get(e.summary), name |-> e.title]

ToDicts(g) == [j \in DOMAIN g |-> EntryToDict(g[j])]

IsSingle(g) == Len(g) = 1
IsCluster(g) == Len(g) > 1

\* [self._entry_to_dict(g[0]) for g in groups if len(g) == 1]
UniqueOf(gs) ==
    LET singles == SelectSeq(gs, IsSingle)
    IN [k \in DOMAIN singles |-> EntryToDict(singles[k][1])]

\* faulty variant: a cluster needs more than two members
DuplicatesOfOffByOne(gs) ==
    LET Big(g) == Len(g) > 2
        clusters == SelectSeq(gs, Big)
    IN [k \in DOMAIN clusters |-> ToDicts(clusters[k])]

\* [[self._entry_to_dict(e) for e in g] for g in groups if len(g) > 1]
DuplicatesOf(gs) ==
    LET clusters == SelectSeq(gs, IsCluster)
    IN [k \in DOMAIN clusters |-> ToDicts(clusters[k])]

\* get_unique and get_duplicates call group with its default arguments
DefaultGroupOutcome(es) == GroupOutcome(es, TRUE, IMAGE_SIMILARITY_THRESHOLD)

-----------------------------------------------------------------------------
(* main.py: group_entries and its export *)

\* the decision taken for entry_2 with `entry` as seed; is_same_price is the
\* constant True
MainIsSame(entry, entry_2) ==
    LET is_same_title ==
            RemoveSpecialCharacters(entry.title) = RemoveSpecialCharacters(entry_2.title)
        is_same_price == TRUE
    IN IF entry.image = None \/ entry_2.image = None
       THEN is_same_title /\ is_same_price
       ELSE \/ HashDiff(AverageHash(Get(entry.image)), AverageHash(Get(entry_2.image))) * 10
                  < 1 * HashBits
            \/ (is_same_title /\ is_same_price)

\* average_hash is called on the seed's image, and on the image of every other
\* entry that has one when the seed has one; nothing catches what it raises
MainScanRaises(entries_c) ==
    LET entry == entries_c[Len(entries_c)]
        rest == SubSeq(entries_c, 1, Len(entries_c) - 1)
    IN /\ entry.image # None
       /\ \/ HashFails(Get(entry.image))
          \/ \E i \in DOMAIN rest :
                rest[i].image # None /\ HashFails(Get(rest[i].image))

\* one iteration of `while entries_c`
MainScan(entries_c) ==
    LET entry == entries_c[Len(entries_c)]
        rest == SubSeq(entries_c, 1, Len(entries_c) - 1)
        Joins(e2) == MainIsSame(entry, e2)
        Stays(e2) == ~MainIsSame(entry, e2)
    IN [group |-> <<entry>> \o SelectSeq(rest, Joins),
        survivors |-> SelectSeq(rest, Stays)]

RECURSIVE MainGroupLoop(_, _)
MainGroupLoop(entries_c, grouped) ==
    IF entries_c = <<>> THEN Returned(grouped)
    ELSE IF MainScanRaises(entries_c) THEN Raised
    ELSE LET s == MainScan(entries_c)
         IN MainGroupLoop(s.survivors, Append(grouped, s.group))

\* group_entries(entries)
GroupEntries(es) == MainGroupLoop(es, <<>>)

\* lzx_entry_to_dict reads entry.summary
MainDictRaises(g) == \E j \in DOMAIN g : ~HasSummary(g[j])

\* get_unique_offers(grouped_offers)
GetUniqueOffers(grouped) ==
    LET singles == SelectSeq(grouped, IsSingle)
    IN IF \E k \in DOMAIN singles : MainDictRaises(singles[k])
       THEN Raised
       ELSE Returned([k \in DOMAIN singles |-> EntryToDict(singles[k][1])])

\* get_duplicated_offers(grouped_offers)
GetDuplicatedOffers(grouped) ==
    LET clusters == SelectSeq(grouped, IsCluster)
    IN IF \E k \in DOMAIN clusters : MainDictRaises(clusters[k])
       THEN Raised
       ELSE Returned([k \in DOMAIN clusters |-> ToDicts(clusters[k])])

\* the cache file does not exist
Absent == [status |-> "absent"]

\* the record of the last operation on the scrapper
Op(name) ==
    [op |-> name, force |-> FALSE, exc |-> FALSE, write |-> "none",
     raised |-> FALSE, returned |-> <<>>, propagated |-> FALSE]

\* no scrapper exists
CacheIdle ==
    /\ scrapper = "plain"
    /\ site = None
    /\ disk = Absent
    /\ phase = "none"
    /\ cache_path = FALSE
    /\ cache = None
    /\ dirty = FALSE
    /\ last = Op("none")

\* no list object is tracked
CallsIdle ==
    /\ heap = <<>>
    /\ input = 0
    /\ frame = None
    /\ results = <<>>

-----------------------------------------------------------------------------
(* Calls of imagehash.average_hash, counted per entry of the input list *)

\* one more call for each entry whose id is in ids
HashedBy(counts, ids) ==
    [i \in DOMAIN counts |-> IF i \in ids THEN counts[i] + 1 ELSE counts[i]]

\* _group: nothing is hashed for an empty list or when building the wrappers
\* raises; otherwise _wrap calls _compute_hash on every new wrapper, which
\* hashes each image once
WrapHashCalls(es, counts) ==
    IF es = <<>> \/ WrapRaises(es) THEN counts
    ELSE HashedBy(counts, {es[i].id : i \in {j \in DOMAIN es : es[j].image # None}})

\* group_entries, one iteration: the seed's image is hashed, then the image
\* of every candidate up to the first one whose hashing raises
MainScanHashed(entries_c) ==
    LET entry == entries_c[Len(entries_c)]
        rest == SubSeq(entries_c, 1, Len(entries_c) - 1)
        Fails(i) == rest[i].image # None /\ HashFails(Get(rest[i].image))
    IN IF entry.image = None THEN {}
       ELSE IF HashFails(Get(entry.image)) THEN {entry.id}
       ELSE {entry.id} \cup
            {rest[i].id : i \in {j \in DOMAIN rest :
                /\ rest[j].image # None
                /\ \A k \in 1..(j - 1) : ~Fails(k)}}

RECURSIVE MainHashCalls(_, _)
MainHashCalls(entries_c, counts) ==
    IF entries_c = <<>> THEN counts
    ELSE LET c == HashedBy(counts, MainScanHashed(entries_c))
         IN IF MainScanRaises(entries_c) THEN c
            ELSE MainHashCalls(MainScan(entries_c).survivors, c)

-----------------------------------------------------------------------------
(* LzxScrapper.group, one loop iteration per step *)

Init ==
    /\ entries \in EntryLists
    /\ require_same_price = TRUE
    /\ similarity_threshold = IMAGE_SIMILARITY_THRESHOLD
    /\ pc = "idle"
    /\ remaining = <<>>
    /\ groups = <<>>
    /\ program = "lzx_parser"
    /\ unique = NoCall
    /\ duplicates = NoCall
    /\ grouped_offers = NoCall
    /\ unique_offers = NoCall
    /\ duplicated_offers = NoCall
    /\ value = <<>>
    /\ normalized = NoCall
    /\ cleaned = NoCall
    /\ hash_calls = [i \in DOMAIN entries |-> 0]
    /\ CallsIdle
    /\ CacheIdle

\* group(entries, require_same_price=rsp, similarity_threshold=thr) up to the loop
GroupCall(rsp, thr) ==
    /\ pc = "idle"
    /\ require_same_price' = rsp
    /\ similarity_threshold' = thr
    /\ groups' = <<>>
    /\ IF entries = <<>>
       THEN pc' = "returned" /\ remaining' = <<>>
       ELSE IF WrapRaises(entries)
       THEN pc' = "raised" /\ remaining' = <<>>
       ELSE pc' = "loop" /\ remaining' = Wrap(entries)
    /\ hash_calls' = WrapHashCalls(entries, hash_calls)
    /\ UNCHANGED <<entries, program, exportVars, mainVars, normVars, callVars, cacheVars>>

\* one pass through the body of `while remaining`
GroupIter ==
    /\ pc = "loop"
    /\ remaining # <<>>
    /\ LET s == Scan(remaining, require_same_price, similarity_threshold)
       IN /\ remaining' = s.survivors
          /\ groups' = Append(groups, s.group)
    /\ UNCHANGED <<entries, require_same_price, similarity_threshold, pc, program,
                   exportVars, mainVars, normVars, hash_calls, callVars, cacheVars>>

\* the loop condition fails: return groups
GroupReturn ==
    /\ pc = "loop"
    /\ remaining = <<>>
    /\ pc' = "returned"
    /\ UNCHANGED <<entries, require_same_price, similarity_threshold, remaining,
                   groups, program, exportVars, mainVars, normVars, hash_calls, callVars, cacheVars>>

Next ==
    \/ \E rsp \in BOOLEAN, thr \in Thresholds : GroupCall(rsp, thr)
    \/ GroupIter
    \/ GroupReturn

Spec == Init /\ [][Next]_vars

-----------------------------------------------------------------------------
(* The public functions, one call per step: the LzxScrapper methods in one
   program, the functions of main.py in the other *)

InitApi ==
    /\ program \in {"lzx_parser", "main"}
    /\ entries \in IF program = "main" THEN MainEntryLists ELSE EntryLists
    /\ require_same_price = TRUE
    /\ similarity_threshold = IMAGE_SIMILARITY_THRESHOLD
    /\ pc = "idle"
    /\ remaining = <<>>
    /\ groups = <<>>
    /\ unique = NoCall
    /\ duplicates = NoCall
    /\ grouped_offers = NoCall
    /\ unique_offers = NoCall
    /\ duplicated_offers = NoCall
    /\ value = <<>>
    /\ normalized = NoCall
    /\ cleaned = NoCall
    /\ hash_calls = [i \in DOMAIN entries |-> 0]
    /\ CallsIdle
    /\ CacheIdle

\* scrapper.group(entries, require_same_price=rsp, similarity_threshold=thr)
Group(rsp, thr) ==
    /\ program = "lzx_parser"
    /\ pc = "idle"
    /\ require_same_price' = rsp
    /\ similarity_threshold' = thr
    /\ LET out == GroupOutcome(entries, rsp, thr)
       IN IF out.status = "raised"
          THEN pc' = "raised" /\ groups' = <<>>
          ELSE pc' = "returned" /\ groups' = out.value
    /\ hash_calls' = WrapHashCalls(entries, hash_calls)
    /\ UNCHANGED <<entries, remaining, program, exportVars, mainVars, normVars, callVars, cacheVars>>

\* scrapper.get_unique(entries)
GetUnique ==
    /\ program = "lzx_parser"
    /\ unique = NoCall
    /\ LET out == DefaultGroupOutcome(entries)
       IN unique' = IF out.status = "raised" THEN Raised
                    ELSE Returned(UniqueOf(out.value))
    /\ hash_calls' = WrapHashCalls(entries, hash_calls)
    /\ UNCHANGED <<entries, groupVars, program, duplicates, mainVars, normVars, callVars, cacheVars>>

\* scrapper.get_duplicates(entries)
GetDuplicates ==
    /\ program = "lzx_parser"
    /\ duplicates = NoCall
    /\ LET out == DefaultGroupOutcome(entries)
       IN duplicates' = IF out.status = "raised" THEN Raised
                        ELSE Returned(DuplicatesOf(out.value))
    /\ hash_calls' = WrapHashCalls(entries, hash_calls)
    /\ UNCHANGED <<entries, groupVars, program, unique, mainVars, normVars, callVars, cacheVars>>

\* main.py: grouped_entries = group_entries(lzx_entries)
MainGroupEntries ==
    /\ program = "main"
    /\ grouped_offers = NoCall
    /\ grouped_offers' = GroupEntries(entries)
    /\ hash_calls' = MainHashCalls(entries, hash_calls)
    /\ UNCHANGED <<entries, groupVars, program, exportVars, unique_offers,
                   duplicated_offers, normVars, callVars, cacheVars>>

\* main.py: unique_offers = get_unique_offers(grouped_entries)
MainGetUniqueOffers ==
    /\ program = "main"
    /\ grouped_offers.status = "returned"
    /\ unique_offers = NoCall
    /\ unique_offers' = GetUniqueOffers(grouped_offers.value)
    /\ UNCHANGED <<entries, groupVars, program, exportVars, grouped_offers,
                   duplicated_offers, normVars, hash_calls, callVars, cacheVars>>

\* main.py: duplicated_offers = get_duplicated_offers(grouped_entries)
MainGetDuplicatedOffers ==
    /\ program = "main"
    /\ grouped_offers.status = "returned"
    /\ duplicated_offers = NoCall
    /\ duplicated_offers' = GetDuplicatedOffers(grouped_offers.value)
    /\ UNCHANGED <<entries, groupVars, program, exportVars, grouped_offers,
                   unique_offers, normVars, hash_calls, callVars, cacheVars>>

NextApi ==
    \/ \E rsp \in BOOLEAN, thr \in Thresholds : Group(rsp, thr)
    \/ GetUnique
    \/ GetDuplicates
    \/ MainGroupEntries
    \/ MainGetUniqueOffers
    \/ MainGetDuplicatedOffers

SpecApi == InitApi /\ [][NextApi]_vars

-----------------------------------------------------------------------------
(* Title normalisation applied to every short string *)

InitNorm ==
    /\ value \in Strings
    /\ normalized = NoCall
    /\ cleaned = NoCall
    /\ entries = <<>>
    /\ program = "lzx_parser"
    /\ require_same_price = TRUE
    /\ similarity_threshold = IMAGE_SIMILARITY_THRESHOLD
    /\ pc = "idle"
    /\ remaining = <<>>
    /\ groups = <<>>
    /\ unique = NoCall
    /\ duplicates = NoCall
    /\ grouped_offers = NoCall
    /\ unique_offers = NoCall
    /\ duplicated_offers = NoCall
    /\ hash_calls = <<>>
    /\ CallsIdle
    /\ CacheIdle

\* LzxEntry._normalize_title(value)
NormalizeTitleCall ==
    /\ normalized = NoCall
    /\ normalized' = Returned(NormalizeTitle(value))
    /\ UNCHANGED <<entries, groupVars, program, exportVars, mainVars, value, cleaned, hash_calls, callVars, cacheVars>>

\* remove_special_characters(value)
RemoveSpecialCharactersCall ==
    /\ cleaned = NoCall
    /\ cleaned' = Returned(RemoveSpecialCharacters(value))
    /\ UNCHANGED <<entries, groupVars, program, exportVars, mainVars, value, normalized, hash_calls, callVars, cacheVars>>

NextNorm ==
    \/ NormalizeTitleCall
    \/ RemoveSpecialCharactersCall

SpecNorm == InitNorm /\ [][NextNorm]_vars

-----------------------------------------------------------------------------
(* The lists of group and group_entries as objects: which list each call
   reads, allocates and mutates.  A list holds the ids of its entries (a
   list of groups holds the references of its groups). *)

MaxCalls == 2

\* the entries of the lists handed to the calls below
CallEntryDomain ==
    [title : {Titlea}, summary : {Some("10")},
     image : {None, Some("img0"), Some("img26")}]
    \cup [title : {Titleb}, summary : {Some("10"), None}, image : {None}]

CallEntryLists ==
    UNION {{[i \in 1..n |-> RawEntry(i, f[i])] : f \in [1..n -> CallEntryDomain]} :
           n \in 0..MaxEntries}

ListObj(kind, items) == [kind |-> kind, items |-> items]

\* a new list object; its reference is the next free one
Alloc(h, obj) == [heap |-> Append(h, obj), ref |-> Len(h) + 1]

\* faulty variant: the copy is the list itself
ListAlias(h, ref) == [heap |-> h, ref |-> ref]

\* list.copy()
ListCopy(h, ref) == Alloc(h, h[ref])

\* list.pop() without the value it returns
ListPop(h, ref) ==
    [h EXCEPT ![ref].items = SubSeq(@, 1, Len(@) - 1)]

\* list.append(x)
ListAppend(h, ref, x) == [h EXCEPT ![ref].items = Append(@, x)]

\* the entries a list of ids stands for
EntriesOf(ids) == [k \in DOMAIN ids |-> entries[ids[k]]]

InitCalls ==
    /\ entries \in CallEntryLists
    /\ program \in {"lzx_parser", "main"}
    /\ heap = <<ListObj("entries", [i \in DOMAIN entries |-> i])>>
    /\ input = Len(heap)
    /\ frame = None
    /\ results = <<>>
    /\ CacheIdle
    /\ hash_calls = [i \in DOMAIN entries |-> 0]
    /\ require_same_price = TRUE
    /\ similarity_threshold = IMAGE_SIMILARITY_THRESHOLD
    /\ pc = "idle"
    /\ remaining = <<>>
    /\ groups = <<>>
    /\ unique = NoCall
    /\ duplicates = NoCall
    /\ grouped_offers = NoCall
    /\ unique_offers = NoCall
    /\ duplicated_offers = NoCall
    /\ value = <<>>
    /\ normalized = NoCall
    /\ cleaned = NoCall

nonHeapVars == <<entries, groupVars, program, exportVars, mainVars, normVars, input,
                 cacheVars>>

\* scrapper.group(entries) up to the loop
CallGroup ==
    /\ program = "lzx_parser"
    /\ frame = None
    /\ Len(results) < MaxCalls
    /\ LET now == EntriesOf(heap[input].items)
       IN IF now = <<>>
          THEN LET r == Alloc(heap, ListObj("groups", <<>>))
               IN /\ heap' = r.heap
                  /\ results' = Append(results, Returned(r.ref))
                  /\ frame' = None
          ELSE IF WrapRaises(now)
          THEN /\ results' = Append(results, Raised)
               /\ UNCHANGED <<heap, frame>>
          ELSE LET w == Alloc(heap, ListObj("wrapped", heap[input].items))
                   g == Alloc(w.heap, ListObj("groups", <<>>))
                   c == ListCopy(g.heap, w.ref)
               IN /\ heap' = c.heap
                  /\ frame' = Some([work |-> c.ref, groups |-> g.ref])
                  /\ UNCHANGED results
    /\ hash_calls' = WrapHashCalls(EntriesOf(heap[input].items), hash_calls)
    /\ UNCHANGED nonHeapVars

\* _group: one pass through the body of `while remaining`
CallGroupIter ==
    /\ program = "lzx_parser"
    /\ frame # None
    /\ heap[Get(frame).work].items # <<>>
    /\ LET f == Get(frame)
           s == Scan(Wrap(EntriesOf(heap[f.work].items)), TRUE,
                     IMAGE_SIMILARITY_THRESHOLD)
           popped == ListPop(heap, f.work)
           cur == Alloc(popped, ListObj("group", [k \in DOMAIN s.group |-> s.group[k].id]))
           surv == Alloc(cur.heap,
                         ListObj("wrapped", [k \in DOMAIN s.survivors |-> s.survivors[k].raw.id]))
       IN /\ heap' = ListAppend(surv.heap, f.groups, cur.ref)
          /\ frame' = Some([f EXCEPT !.work = surv.ref])
    /\ UNCHANGED <<nonHeapVars, results, hash_calls>>

\* group_entries(entries) up to the loop
CallGroupEntries ==
    /\ program = "main"
    /\ frame = None
    /\ Len(results) < MaxCalls
    /\ LET c == ListCopy(heap, input)
           g == Alloc(c.heap, ListObj("groups", <<>>))
       IN /\ heap' = g.heap
          /\ frame' = Some([work |-> c.ref, groups |-> g.ref])
    /\ UNCHANGED <<nonHeapVars, results, hash_calls>>

\* group_entries: one pass through the body of `while entries_c`
CallGroupEntriesIter ==
    /\ program = "main"
    /\ frame # None
    /\ heap[Get(frame).work].items # <<>>
    /\ LET f == Get(frame)
           now == EntriesOf(heap[f.work].items)
           s == MainScan(now)
           popped == ListPop(heap, f.work)
           seed == Alloc(popped, ListObj("group", <<now[Len(now)].id>>))
           cur == Alloc(popped, ListObj("group", [k \in DOMAIN s.group |-> s.group[k].id]))
           surv == Alloc(ListAppend(cur.heap, f.groups, cur.ref),
                         ListObj("entries", [k \in DOMAIN s.survivors |-> s.survivors[k].id]))
       IN IF MainScanRaises(now)
          THEN /\ heap' = seed.heap
               /\ frame' = None
               /\ results' = Append(results, Raised)
          ELSE /\ heap' = surv.heap
               /\ frame' = Some([f EXCEPT !.work = surv.ref])
               /\ UNCHANGED results
    /\ hash_calls' = HashedBy(hash_calls, MainScanHashed(EntriesOf(heap[Get(frame).work].items)))
    /\ UNCHANGED nonHeapVars

\* the loop condition fails: return the list of groups
CallReturn ==
    /\ frame # None
    /\ heap[Get(frame).work].items = <<>>
    /\ results' = Append(results, Returned(Get(frame).groups))
    /\ frame' = None
    /\ UNCHANGED <<nonHeapVars, heap, hash_calls>>

NextCalls ==
    \/ CallGroup
    \/ CallGroupIter
    \/ CallGroupEntries
    \/ CallGroupEntriesIter
    \/ CallReturn

SpecCalls == InitCalls /\ [][NextCalls]_vars

\* a call that has started keeps running: the interpreter executes the next
\* loop iteration, and the return once the loop condition fails
SpecCallsFair ==
    /\ SpecCalls
    /\ WF_vars(CallGroupIter)
    /\ WF_vars(CallGroupEntriesIter)
    /\ WF_vars(CallReturn)

-----------------------------------------------------------------------------
(* ScrapperBase: the in-memory cache, its dirty flag and the cache file, and
   the two scrappers built on it (src/scrapper_base.py,
   src/otomoto_scrapper.py, src/pepper_scrapper.py) *)

MaxPageLen == 2

\* the other states of the cache file
Corrupt == [status |-> "corrupt"]
NotASet == [status |-> "notset"]
Stored(s) == [status |-> "stored", value |-> s]

\* ScrapperBase.load_cache: an empty set unless the file holds a pickled set
LoadCache(file) == IF file.status = "stored" THEN file.value ELSE {}

\* what the file system does with a write: it succeeds, it fails before the
\* file is opened, or it fails after open(..., 'wb') truncated the file
WriteOutcomes == {"ok", "refused", "truncated"}

\* faulty variant: a failed write clears the dirty flag as well
SaveCacheClearsOnFailure(path, c, d, file, force, outcome) ==
    IF ~path \/ c = None
    THEN [dirty |-> d, disk |-> file, write |-> "noop"]
    ELSE IF ~d /\ ~force
    THEN [dirty |-> d, disk |-> file, write |-> "skipped"]
    ELSE IF outcome = "ok"
    THEN [dirty |-> FALSE, disk |-> Stored(Get(c)), write |-> "ok"]
    ELSE [dirty |-> FALSE,
          disk |-> IF outcome = "truncated" THEN Corrupt ELSE file,
          write |-> "failed"]

\* ScrapperBase.save_cache(force): the dirty flag and the file afterwards
SaveCacheOutcome(path, c, d, file, force, outcome) ==
    IF ~path \/ c = None
    THEN [dirty |-> d, disk |-> file, write |-> "noop"]
    ELSE IF ~d /\ ~force
    THEN [dirty |-> d, disk |-> file, write |-> "skipped"]
    ELSE IF outcome = "ok"
    THEN [dirty |-> FALSE, disk |-> Stored(Get(c)), write |-> "ok"]
    ELSE [dirty |-> d,
          disk |-> IF outcome = "truncated" THEN Corrupt ELSE file,
          write |-> "failed"]

\* faulty variant: the context manager saves on every exit
ExitSavesAlways(exc) == TRUE

\* ScrapperBase.__exit__: `if exc_type is None`
ExitSaves(exc) == ~exc

\* ScrapperBase.__exit__ has no return statement: it returns None
ExitReturn == None

\* the with statement swallows the exception only for a true return value
Suppresses(ret) == ret # None

\* Otomoto: the offers of the site, an <article> without <p> (skipped) and
\* one whose <p> has no <a href> (title_anchor is None)
OtomotoOffers == {"o1", "o2"}
Articles == OtomotoOffers \cup {"nop", "noanchor"}

\* _parse_article: title_anchor.get_text on None raises AttributeError
ParseRaises(article) == article = "noanchor"

\* _parse_article
ParseArticle(article) == IF article \in OtomotoOffers THEN Some(article) ELSE None

\* faulty variant: new offers are not added to the cache
RECURSIVE OtomotoLoopNoAdd(_, _, _)
OtomotoLoopNoAdd(articles, new_offers, c) ==
    IF articles = <<>>
    THEN [raised |-> FALSE, returned |-> new_offers, cache |-> c]
    ELSE IF ParseRaises(Head(articles))
    THEN [raised |-> TRUE, returned |-> <<>>, cache |-> c]
    ELSE LET offer == ParseArticle(Head(articles))
         IN IF offer = None \/ Get(offer) \in c
            THEN OtomotoLoopNoAdd(Tail(articles), new_offers, c)
            ELSE OtomotoLoopNoAdd(Tail(articles), Append(new_offers, Get(offer)), c)

\* get_offers: `for article in articles`
RECURSIVE OtomotoLoop(_, _, _)
OtomotoLoop(articles, new_offers, c) ==
    IF articles = <<>>
    THEN [raised |-> FALSE, returned |-> new_offers, cache |-> c]
    ELSE IF ParseRaises(Head(articles))
    THEN [raised |-> TRUE, returned |-> <<>>, cache |-> c]
    ELSE LET offer == ParseArticle(Head(articles))
         IN IF offer = None \/ Get(offer) \in c
            THEN OtomotoLoop(Tail(articles), new_offers, c)
            ELSE OtomotoLoop(Tail(articles), Append(new_offers, Get(offer)),
                             c \cup {Get(offer)})

\* sequences of at most n elements of S
SeqsUpTo(S, n) == UNION {[1..k -> S] : k \in 0..n}

\* what _fetch_page and the search for the container give
OtomotoSites ==
    {[status |-> "failed"], [status |-> "nocontainer"]}
    \cup {[status |-> "ok", articles |-> a] : a \in SeqsUpTo(Articles, MaxPageLen)}

\* get_offers on the page: what it returns and the cache afterwards
OtomotoGetOffers(page, c) ==
    IF page.status # "ok" \/ page.articles = <<>>
    THEN [raised |-> FALSE, returned |-> <<>>, cache |-> c]
    ELSE OtomotoLoop(page.articles, <<>>, c)

\* ScrapperBase.update_cache(items): the cache and the dirty flag afterwards
UpdateCacheOutcome(c, d, items) ==
    LET before == IF c = None THEN {} ELSE Get(c)
        after == before \cup items
    IN [cache |-> Some(after),
        dirty |-> d \/ Cardinality(after) # Cardinality(before)]

\* Pepper: two names under one link, another link, and a thread without link
MaxPageOffers == 1

PepperOffer(name, link) == [name |-> name, link |-> link]

PepperOffers ==
    {PepperOffer("n1", "l1"), PepperOffer("n2", "l1"), PepperOffer("n1", "l2"),
     PepperOffer("n1", "")}

\* _PAGE_PATHS: the first page and ?page=2
PagePaths == {"", "?page=2"}

\* per page: whether page.goto succeeded and the offers extracted from it
PepperSites ==
    [1..Cardinality(PagePaths) ->
        [loaded : BOOLEAN, offers : SeqsUpTo(PepperOffers, MaxPageOffers)]]

\* the offers of the pages that loaded, in the order they are met
RECURSIVE Scraped(_)
Scraped(pages) ==
    IF pages = <<>> THEN <<>>
    ELSE (IF Head(pages).loaded THEN Head(pages).offers ELSE <<>>)
         \o Scraped(Tail(pages))

\* faulty variant: a later offer replaces the one stored under its link
RECURSIVE AggregateLastWins(_, _)
AggregateLastWins(offers, aggregated) ==
    IF offers = <<>> THEN aggregated
    ELSE LET offer == Head(offers)
             Other(o) == o.link # offer.link
         IN IF offer.link # ""
            THEN AggregateLastWins(Tail(offers),
                                   Append(SelectSeq(aggregated, Other), offer))
            ELSE AggregateLastWins(Tail(offers), aggregated)

\* `if offer.link and offer.link not in aggregated: aggregated[offer.link] = offer`
RECURSIVE Aggregate(_, _)
Aggregate(offers, aggregated) ==
    IF offers = <<>> THEN aggregated
    ELSE LET offer == Head(offers)
         IN IF offer.link # "" /\ \A k \in DOMAIN aggregated : aggregated[k].link # offer.link
            THEN Aggregate(Tail(offers), Append(aggregated, offer))
            ELSE Aggregate(Tail(offers), aggregated)

\* get_hottest_pepper_offers: what it returns, the cache and the flag afterwards
PepperGetOffers(pages, c, d) ==
    LET aggregated == Aggregate(Scraped(pages), <<>>)
        cached == IF c # None /\ Get(c) # {} THEN Get(c) ELSE {}
        IsNew(o) == o \notin cached
        new_offers == SelectSeq(aggregated, IsNew)
    IN IF aggregated = <<>> \/ new_offers = <<>>
       THEN [returned |-> <<>>, cache |-> c, dirty |-> d]
       ELSE LET u == UpdateCacheOutcome(c, d, Range(new_offers))
            IN [returned |-> new_offers, cache |-> u.cache, dirty |-> u.dirty]

\* the offers a scrapper of this kind handles
OffersOf(kind) == IF kind = "pepper" THEN PepperOffers ELSE OtomotoOffers

\* the cache files a run can find
CacheFiles(kind) ==
    {Absent, Corrupt, NotASet} \cup {Stored(s) : s \in SUBSET OffersOf(kind)}

\* nothing is being grouped
GroupingIdle ==
    /\ entries = <<>>
    /\ program = "lzx_parser"
    /\ require_same_price = TRUE
    /\ similarity_threshold = IMAGE_SIMILARITY_THRESHOLD
    /\ pc = "idle"
    /\ remaining = <<>>
    /\ groups = <<>>
    /\ unique = NoCall
    /\ duplicates = NoCall
    /\ grouped_offers = NoCall
    /\ unique_offers = NoCall
    /\ duplicated_offers = NoCall
    /\ value = <<>>
    /\ normalized = NoCall
    /\ cleaned = NoCall
    /\ hash_calls = <<>>
    /\ CallsIdle

groupingVars == <<entries, groupVars, program, exportVars, mainVars, normVars,
                  hash_calls, callVars>>

InitCache ==
    /\ scrapper \in {"otomoto", "plain"}
    /\ site \in IF scrapper = "otomoto" THEN OtomotoSites ELSE {None}
    /\ disk \in CacheFiles(scrapper)
    /\ phase = "none"
    /\ cache_path = FALSE
    /\ cache = None
    /\ dirty = FALSE
    /\ last = Op("none")
    /\ GroupingIdle

\* ScrapperBase.__init__ (OtomotoScrapper and PepperScrapper pass a cache
\* path, the plain subclass passes none)
NewScrapper ==
    /\ phase = "none"
    /\ phase' = "live"
    /\ cache_path' = (scrapper # "plain")
    /\ cache' = IF scrapper # "plain" THEN Some(LoadCache(disk)) ELSE None
    /\ dirty' = FALSE
    /\ last' = Op("init")
    /\ UNCHANGED <<scrapper, site, disk, groupingVars>>

\* OtomotoScrapper.get_offers()
GetOffers ==
    /\ scrapper = "otomoto"
    /\ phase # "none"
    /\ LET out == OtomotoGetOffers(site, Get(cache))
       IN /\ cache' = Some(out.cache)
          /\ last' = [Op("get_offers") EXCEPT !.raised = out.raised,
                                             !.returned = out.returned]
    /\ UNCHANGED <<scrapper, site, disk, phase, cache_path, dirty, groupingVars>>

\* PepperScrapper.get_hottest_pepper_offers()
GetHottestPepperOffers ==
    /\ scrapper = "pepper"
    /\ phase # "none"
    /\ LET out == PepperGetOffers(site, cache, dirty)
       IN /\ cache' = out.cache
          /\ dirty' = out.dirty
          /\ last' = [Op("get_hottest_pepper_offers") EXCEPT !.returned = out.returned]
    /\ UNCHANGED <<scrapper, site, disk, phase, cache_path, groupingVars>>

\* scrapper.update_cache(items)
UpdateCache(items) ==
    /\ phase # "none"
    /\ LET u == UpdateCacheOutcome(cache, dirty, items)
       IN cache' = u.cache /\ dirty' = u.dirty
    /\ last' = Op("update_cache")
    /\ UNCHANGED <<scrapper, site, disk, phase, cache_path, groupingVars>>

\* scrapper.save_cache(force)
SaveCache(force, outcome) ==
    /\ phase # "none"
    /\ LET s == SaveCacheOutcome(cache_path, cache, dirty, disk, force, outcome)
       IN /\ dirty' = s.dirty
          /\ disk' = s.disk
          /\ last' = [Op("save_cache") EXCEPT !.force = force, !.write = s.write]
    /\ UNCHANGED <<scrapper, site, phase, cache_path, cache, groupingVars>>

\* with scrapper: ...
Enter ==
    /\ phase = "live"
    /\ phase' = "with"
    /\ last' = Op("enter")
    /\ UNCHANGED <<scrapper, site, disk, cache_path, cache, dirty, groupingVars>>

\* the with block ends, with an exception in flight or without
Exit(exc, outcome) ==
    /\ phase = "with"
    /\ phase' = "live"
    /\ IF ExitSaves(exc)
       THEN LET s == SaveCacheOutcome(cache_path, cache, dirty, disk, FALSE, outcome)
            IN /\ dirty' = s.dirty
               /\ disk' = s.disk
               /\ last' = [Op("exit") EXCEPT !.exc = exc, !.write = s.write,
                              !.propagated = exc /\ ~Suppresses(ExitReturn)]
       ELSE /\ UNCHANGED <<dirty, disk>>
            /\ last' = [Op("exit") EXCEPT !.exc = exc,
                           !.propagated = exc /\ ~Suppresses(ExitReturn)]
    /\ UNCHANGED <<scrapper, site, cache_path, cache, groupingVars>>

\* ScrapperBase.__del__
Del(outcome) ==
    /\ phase = "live"
    /\ phase' = "none"
    /\ IF cache_path
       THEN LET s == SaveCacheOutcome(cache_path, cache, dirty, disk, FALSE, outcome)
            IN /\ dirty' = s.dirty
               /\ disk' = s.disk
               /\ last' = [Op("del") EXCEPT !.write = s.write]
       ELSE /\ UNCHANGED <<dirty, disk>>
            /\ last' = Op("del")
    /\ UNCHANGED <<scrapper, site, cache_path, cache, groupingVars>>

NextCache ==
    \/ NewScrapper
    \/ GetOffers
    \/ \E items \in SUBSET OffersOf(scrapper) : UpdateCache(items)
    \/ \E force \in BOOLEAN, outcome \in WriteOutcomes : SaveCache(force, outcome)
    \/ Enter
    \/ \E exc \in BOOLEAN, outcome \in WriteOutcomes : Exit(exc, outcome)
    \/ \E outcome \in WriteOutcomes : Del(outcome)

SpecCache == InitCache /\ [][NextCache]_vars

InitPepper ==
    /\ scrapper = "pepper"
    /\ site \in PepperSites
    /\ disk \in CacheFiles(scrapper)
    /\ phase = "none"
    /\ cache_path = FALSE
    /\ cache = None
    /\ dirty = FALSE
    /\ last = Op("none")
    /\ GroupingIdle

NextPepper ==
    \/ NewScrapper
    \/ GetHottestPepperOffers
    \/ \E force \in BOOLEAN, outcome \in WriteOutcomes : SaveCache(force, outcome)
    \/ \E outcome \in WriteOutcomes : Del(outcome)

SpecPepper == InitPepper /\ [][NextPepper]_vars

-----------------------------------------------------------------------------
(* Helpers of the properties *)

\* the positions <<g, j>> of the groups at which entry e stands
Places(gs, e) ==
    {p \in UNION {{<<g, j>> : j \in DOMAIN gs[g]} : g \in DOMAIN gs} :
        gs[p[1]][p[2]] = e}

\* a grouping as a set of sets
AsSets(gs) == {Range(gs[g]) : g \in DOMAIN gs}

\* the same offers in another order
Reordered(es) ==
    {[i \in DOMAIN es |-> es[f[i]]] : f \in Permutations(DOMAIN es)}

HasHash(e) == ComputeHash(e.image) # None
HashOf(e) == Get(ComputeHash(e.image))

\* the seed and the group of the iteration that has just run
LastGroup == groups[Len(groups)]

-----------------------------------------------------------------------------
(* C1: when group returns, every input entry stands at exactly one place of
   the groups and every member of a group is an input entry. *)
C1_Partition ==
    pc = "returned" =>
        /\ \A i \in DOMAIN entries : Cardinality(Places(groups, entries[i])) = 1
        /\ \A g \in DOMAIN groups : Range(groups[g]) \subseteq Range(entries)

C1_Witness ==
    /\ pc = "returned"
    /\ Len(entries) = 3
    /\ Len(groups) = 2

(* C2: in an iteration with seed `base`, an offer of the working list joins
   the new group iff its normalized title equals the seed's, its price text
   equals the seed's when require_same_price is set, and the hash distance is
   within the threshold when both have a hash; it leaves the working list iff
   it joined. *)
C2_JoinRule ==
    [][(pc = "loop" /\ remaining # <<>> /\ groups' # groups) =>
        LET base == remaining[Len(remaining)]
            new == groups'[Len(groups')]
        IN \A i \in 1..(Len(remaining) - 1) :
            LET other == remaining[i]
                joins ==
                    /\ NormalizeTitle(base.raw.title) = NormalizeTitle(other.raw.title)
                    /\ require_same_price => base.raw.summary = other.raw.summary
                    /\ (base.image_hash # None /\ other.image_hash # None) =>
                        HashDiff(Get(base.image_hash), Get(other.image_hash))
                            * similarity_threshold.den
                          <= similarity_threshold.num * HashBits
            IN /\ (other.raw \in Range(new)) <=> joins
               /\ (other \in Range(remaining')) <=> ~joins]_vars

C2_Witness ==
    /\ pc = "loop"
    /\ Len(groups) = 1
    /\ Len(groups[1]) = 2
    /\ Len(remaining) = 1
    /\ \E i \in DOMAIN entries : HasHash(entries[i])

(* C3 as claimed: every reordering of the input yields the same set of
   groups. *)
C3_OrderInsignificant ==
    pc = "returned" =>
        \A p \in Reordered(entries) :
            AsSets(GroupResult(p, require_same_price, similarity_threshold))
                = AsSets(groups)

\* the equality predicate is transitive on the offers of es
TransitiveOn(es, rsp, thr) ==
    \A a, b, c \in Range(Wrap(es)) :
        (IsDuplicate(a, b, rsp, thr) /\ IsDuplicate(b, c, rsp, thr))
            => IsDuplicate(a, c, rsp, thr)

(* C3 amended: when the equality predicate is transitive on the offers of
   the input, every reordering of the input yields the same set of groups. *)
C3_OrderInsignificantIfTransitive ==
    (pc = "returned" /\ entries # <<>>
        /\ TransitiveOn(entries, require_same_price, similarity_threshold)) =>
        \A p \in Reordered(entries) :
            AsSets(GroupResult(p, require_same_price, similarity_threshold))
                = AsSets(groups)

C3_Witness ==
    /\ pc = "returned"
    /\ Len(entries) = 3
    /\ TransitiveOn(entries, require_same_price, similarity_threshold)
    /\ Len(groups) = 2
    /\ \E i, j \in DOMAIN entries : HasHash(entries[i]) /\ ~HasHash(entries[j])

(* C4: with require_same_price off, an input of two offers with the same
   normalized title and both hashed is one group when the hash distance
   equals the threshold, and two singleton groups when it is one bit more. *)
C4_ThresholdBoundary ==
    (/\ pc = "returned"
     /\ Len(entries) = 2
     /\ ~require_same_price
     /\ NormalizeTitle(entries[1].title) = NormalizeTitle(entries[2].title)
     /\ HasHash(entries[1]) /\ HasHash(entries[2])) =>
        LET bits == HashDiff(HashOf(entries[1]), HashOf(entries[2]))
            atThreshold == similarity_threshold.num * HashBits
            thr == similarity_threshold
        IN /\ bits * thr.den = atThreshold =>
                AsSets(groups) = {{entries[1], entries[2]}}
           /\ (bits - 1) * thr.den = atThreshold =>
                AsSets(groups) = {{entries[1]}, {entries[2]}}

C4_Witness ==
    /\ pc = "returned"
    /\ Len(entries) = 2
    /\ ~require_same_price
    /\ HasHash(entries[1]) /\ HasHash(entries[2])
    /\ HashDiff(HashOf(entries[1]), HashOf(entries[2])) * similarity_threshold.den
         = similarity_threshold.num * HashBits
    /\ Len(groups) = 1

(* C5: in an iteration, an offer of the working list with the seed's
   normalized title and price text joins the seed's group when exactly one of
   the two has an image hash. *)
C5_NoImageFallback ==
    [][(pc = "loop" /\ remaining # <<>> /\ groups' # groups) =>
        LET base == remaining[Len(remaining)]
            new == groups'[Len(groups')]
        IN \A i \in 1..(Len(remaining) - 1) :
            LET other == remaining[i]
            IN (/\ base.normalized_title = other.normalized_title
                /\ base.raw.summary = other.raw.summary
                /\ (base.image_hash = None) # (other.image_hash = None))
               => /\ new[1] = base.raw
                  /\ other.raw \in Range(new)]_vars

C5_Witness ==
    /\ pc = "loop"
    /\ Len(groups) = 1
    /\ HasHash(LastGroup[1])
    /\ \E j \in DOMAIN LastGroup :
        /\ ~HasHash(LastGroup[j])
        /\ LastGroup[j].summary = LastGroup[1].summary

(* C6: for the parameters of the call, the decision with A as seed and B as
   candidate equals the decision with B as seed and A as candidate. *)
C6_Symmetric ==
    pc \in {"loop", "returned"} =>
        \A i, j \in DOMAIN entries :
            IsDuplicate(WrapEntry(entries[i]), WrapEntry(entries[j]),
                        require_same_price, similarity_threshold)
            = IsDuplicate(WrapEntry(entries[j]), WrapEntry(entries[i]),
                          require_same_price, similarity_threshold)

C6_Witness ==
    /\ pc = "loop"
    /\ Len(groups) = 1
    /\ \E i, j \in DOMAIN entries :
        /\ HasHash(entries[i]) /\ ~HasHash(entries[j])
        /\ IsDuplicate(WrapEntry(entries[i]), WrapEntry(entries[j]),
                       require_same_price, similarity_threshold)
    /\ \E i, j \in DOMAIN entries :
        ~IsDuplicate(WrapEntry(entries[i]), WrapEntry(entries[j]),
                     require_same_price, similarity_threshold)

(* C7: the result of normalising a title is a fixed point of the
   normalisation, consists of lowercase ASCII letters and digits only, and is
   empty when the title has no ASCII letter or digit; both functions always
   return. *)
C7_NormalizeIdempotent ==
    LET Good(out, F(_)) ==
            /\ out.status \in {"none", "returned"}
            /\ out.status = "returned" =>
                /\ F(out.value) = out.value
                /\ \A i \in DOMAIN out.value :
                    out.value[i] \in AsciiLower \cup AsciiDigit
                /\ (\A i \in DOMAIN value :
                        value[i] \notin AsciiLower \cup AsciiUpper \cup AsciiDigit)
                    => out.value = <<>>
    IN Good(normalized, NormalizeTitle) /\ Good(cleaned, RemoveSpecialCharacters)

C7_Witness ==
    /\ value = <<"A", "!", "7">>
    /\ normalized = Returned(<<"a", "7">>)
    /\ cleaned = Returned(<<"a", "7">>)

\* the entries whose records stand in a flat record list
ExportedIn(records) == [k \in DOMAIN records |-> records[k].entry]

RECURSIVE Flatten(_)
Flatten(lists) ==
    IF lists = <<>> THEN <<>> ELSE Head(lists) \o Flatten(Tail(lists))

Occurrences(x, s) == Cardinality({k \in DOMAIN s : s[k] = x})

\* unique and duplicate export of the grouping gs of the entries es
ExportMatches(es, gs, u, d) ==
    /\ Len(u) = Cardinality({g \in DOMAIN gs : Len(gs[g]) = 1})
    /\ \A g \in DOMAIN gs : Len(gs[g]) = 1 =>
            Occurrences(gs[g][1].id, ExportedIn(u)) = 1
    /\ Len(d) = Cardinality({g \in DOMAIN gs : Len(gs[g]) > 1})
    /\ \A g \in DOMAIN gs : Len(gs[g]) > 1 =>
            \E k \in DOMAIN d :
                /\ Len(d[k]) = Len(gs[g])
                /\ \A j \in DOMAIN gs[g] :
                    Occurrences(gs[g][j].id, ExportedIn(d[k])) = 1
    /\ \A i \in DOMAIN es :
            Occurrences(es[i].id, ExportedIn(u) \o ExportedIn(Flatten(d))) = 1

(* C8: when get_unique and get_duplicates have returned for the same entry
   list, the unique export holds one record per group of size 1, the
   duplicate export one nested list per larger group with a record of each
   member, and every input entry is exported exactly once in the two
   together; likewise for get_unique_offers and get_duplicated_offers. *)
C8_Export ==
    /\ (unique.status = "returned" /\ duplicates.status = "returned") =>
        ExportMatches(entries,
                      GroupResult(entries, TRUE, IMAGE_SIMILARITY_THRESHOLD),
                      unique.value, duplicates.value)
    /\ (unique_offers.status = "returned" /\ duplicated_offers.status = "returned") =>
        ExportMatches(entries, grouped_offers.value,
                      unique_offers.value, duplicated_offers.value)

C8_Witness ==
    /\ Len(entries) = 3
    /\ unique.status = "returned" /\ Len(unique.value) = 1
    /\ duplicates.status = "returned" /\ Len(duplicates.value) = 1

(* C9: for the empty entry list group returns the empty list and does not
   raise, and get_unique, get_duplicates and group_entries return the empty
   list. *)
C9_EmptyInput ==
    LET Empty(out) ==
            /\ out.status \in {"none", "returned"}
            /\ out.status = "returned" => out.value = <<>>
    IN entries = <<>> =>
        /\ pc # "raised"
        /\ pc = "returned" => groups = <<>>
        /\ Empty(unique)
        /\ Empty(duplicates)
        /\ Empty(grouped_offers)

C9_Witness ==
    /\ entries = <<>>
    /\ pc = "returned"
    /\ unique.status = "returned"
    /\ duplicates.status = "returned"

(* C10 as claimed: group raises no error, whatever the entries lack. *)
C10_NeverRaises == pc # "raised"

\* the image of the entry cannot be hashed
HashFailsFor(e) == e.image # None /\ HashFails(Get(e.image))

(* C11: an image that cannot be hashed makes group raise nothing (group
   raises only for an entry that lacks a field), the wrapped offer has image
   hash None, it stands in exactly one group when group returns, and in every
   iteration in which the seed or the candidate is such an offer the
   candidate joins iff normalized title and (when required) price text are
   equal. *)
C11_HashFailureIsNone ==
    /\ [](/\ pc = "raised" => WrapRaises(entries)
          /\ \A i \in DOMAIN remaining :
                HashFailsFor(remaining[i].raw) => remaining[i].image_hash = None
          /\ pc = "returned" =>
                \A i \in DOMAIN entries :
                    HashFailsFor(entries[i]) =>
                        Cardinality(Places(groups, entries[i])) = 1)
    /\ [][(pc = "loop" /\ remaining # <<>> /\ groups' # groups) =>
            LET base == remaining[Len(remaining)]
                new == groups'[Len(groups')]
            IN \A i \in 1..(Len(remaining) - 1) :
                LET other == remaining[i]
                IN (HashFailsFor(base.raw) \/ HashFailsFor(other.raw)) =>
                    ((other.raw \in Range(new)) <=>
                        /\ NormalizeTitle(base.raw.title) = NormalizeTitle(other.raw.title)
                        /\ require_same_price => base.raw.summary = other.raw.summary)]_vars

\* the list objects of a returned grouping: the list of groups and its groups
ListsOf(r) == {r} \cup Range(heap[r].items)

\* the indices of the calls that returned
ReturnedCalls == {k \in DOMAIN results : results[k].status = "returned"}

(* C13: at every step, hence after each call of group or group_entries, the
   input list holds the same entries in the same order; and the list of
   groups a call returned and its groups are list objects distinct from the
   input list and from every list object of any other call's result. *)
C13_InputKeptResultFresh ==
    /\ heap # <<>> => heap[input].items = [i \in DOMAIN entries |-> i]
    /\ \A k \in ReturnedCalls :
          /\ input \notin ListsOf(results[k].value)
          /\ \A m \in ReturnedCalls \ {k} :
                ListsOf(results[k].value) \cap ListsOf(results[m].value) = {}

C13_Witness ==
    /\ Len(entries) = 3
    /\ Cardinality(ReturnedCalls) = 2
    /\ \A k \in ReturnedCalls :
          /\ Len(heap[results[k].value].items) = 2
          /\ \E g \in Range(heap[results[k].value].items) : Len(heap[g].items) = 2
    /\ program = "main"

(* C16 as claimed: when OtomotoScrapper.get_offers has returned new offers
   and the next operation is a context-manager exit without exception or the
   destructor, whose write does not fail, the cache file afterwards holds a
   set containing those offers. *)
C16_SavedAfterGetOffers ==
    [][(/\ scrapper = "otomoto"
        /\ last.op = "get_offers"
        /\ last.returned # <<>>
        /\ last'.op \in {"exit", "del"}
        /\ ~last'.exc
        /\ last'.write # "failed")
       => (/\ disk'.status = "stored"
           /\ Range(last.returned) \subseteq disk'.value)]_vars

(* C17: a call of OtomotoScrapper.get_offers returns no offer that was in
   the cache before the call and no offer twice, every offer it returns is
   in the cache after the call, and when the call before it was get_offers
   on the same page with the same instance it returns the empty list. *)
C17_OnlyUncachedOffers ==
    [][last'.op = "get_offers" =>
        LET ret == last'.returned
        IN /\ \A k \in DOMAIN ret : ret[k] \notin Get(cache)
           /\ \A j, k \in DOMAIN ret : ret[j] = ret[k] => j = k
           /\ Range(ret) \subseteq Get(cache')
           /\ (last.op = "get_offers" /\ site' = site) => ret = <<>>]_vars

C17_Witness ==
    /\ last.op = "get_offers"
    /\ site.status = "ok"
    /\ site.articles = <<"o1", "o2">>
    /\ last.returned = <<"o2">>
    /\ Get(cache) = {"o1", "o2"}

\* the first offer with this link among the scraped ones
FirstWithLink(offers, link) ==
    offers[CHOOSE i \in DOMAIN offers :
              /\ offers[i].link = link
              /\ \A j \in 1..(i - 1) : offers[j].link # link]

(* C18: a call of PepperScrapper.get_hottest_pepper_offers returns no offer
   that was in the cache before the call, at most one offer per link, each
   with a non-empty link and equal to the first scraped offer with that
   link; every returned offer is in the cache after the call, and the cache
   is dirty after a call that returned an offer. *)
C18_PepperOnlyUncached ==
    [][last'.op = "get_hottest_pepper_offers" =>
        LET ret == last'.returned
        IN /\ \A k \in DOMAIN ret : ret[k] \notin Get(cache)
           /\ \A j, k \in DOMAIN ret : ret[j].link = ret[k].link => j = k
           /\ \A k \in DOMAIN ret :
                 /\ ret[k].link # ""
                 /\ ret[k] = FirstWithLink(Scraped(site), ret[k].link)
           /\ Range(ret) \subseteq Get(cache')
           /\ ret # <<>> => dirty']_vars

C18_Witness ==
    /\ last.op = "get_hottest_pepper_offers"
    /\ \A p \in DOMAIN site : site[p].loaded
    /\ Scraped(site) = <<PepperOffer("n1", "l1"), PepperOffer("n2", "l1")>>
    /\ last.returned = <<PepperOffer("n1", "l1")>>
    /\ Get(cache) = {PepperOffer("n1", "l1"), PepperOffer("n1", "")}
    /\ dirty

(* C19: every execution of save_cache (called directly, from __exit__ or
   from __del__) changes nothing when cache_path or cache is None; changes
   nothing when the cache is not dirty and force is false; attempts the write
   otherwise; after a successful write the file holds the cache and the dirty
   flag is False; after a failed write nothing is raised and the dirty flag
   and the cache are as before. *)
C19_SaveCacheContract ==
    [][last'.write # "none" =>
        /\ (~cache_path \/ cache = None) =>
              (last'.write = "noop" /\ cache' = cache /\ dirty' = dirty /\ disk' = disk)
        /\ (cache_path /\ cache # None /\ ~dirty /\ ~last'.force) =>
              (last'.write = "skipped" /\ cache' = cache /\ dirty' = dirty /\ disk' = disk)
        /\ (cache_path /\ cache # None /\ (dirty \/ last'.force)) =>
              last'.write \in {"ok", "failed"}
        /\ last'.write = "ok" => (~dirty' /\ disk' = Stored(Get(cache)))
        /\ last'.write = "failed" =>
              (dirty' = dirty /\ cache' = cache /\ ~last'.raised)]_vars

C19_Witness ==
    /\ last.op = "save_cache"
    /\ last.write = "failed"
    /\ ~last.force
    /\ dirty
    /\ disk = Corrupt

(* C20: when a with block ends without exception and the cache is dirty,
   __exit__ attempts the write, and unless the write fails the file then
   holds the cache and the dirty flag is False; when it ends with an
   exception, __exit__ writes nothing, leaves file and flag as they were, and
   the exception propagates. *)
C20_ExitSavesUnlessException ==
    [][last'.op = "exit" =>
        /\ (~last'.exc /\ dirty /\ cache_path /\ cache # None) =>
              /\ last'.write \in {"ok", "failed"}
              /\ last'.write = "ok" => (disk' = Stored(Get(cache)) /\ ~dirty')
        /\ last'.exc =>
              (last'.write = "none" /\ disk' = disk /\ dirty' = dirty
               /\ last'.propagated)]_vars

C20_Witness ==
    /\ last.op = "exit"
    /\ last.exc
    /\ last.propagated
    /\ dirty
    /\ cache_path
    /\ disk = Absent

(* C12 as claimed: over the calls of group / get_unique / get_duplicates
   (or of main.py's group_entries) on one entry list, no entry's image is
   hashed more than once. *)
C12_HashedAtMostOnce == \A i \in DOMAIN hash_calls : hash_calls[i] <= 1

(* C14 as claimed: in a grouping returned by main.group_entries all offers
   of a group have the same normalized title. *)
C14_MainGroupsShareTitle ==
    grouped_offers.status = "returned" =>
        \A g \in DOMAIN grouped_offers.value :
            \A j, k \in DOMAIN grouped_offers.value[g] :
                RemoveSpecialCharacters(grouped_offers.value[g][j].title)
                    = RemoveSpecialCharacters(grouped_offers.value[g][k].title)

\* main.py: the share of differing bits between the image hashes of two
\* entries is num/den
MainDistance(e1, e2, num, den) ==
    HashDiff(AverageHash(Get(e1.image)), AverageHash(Get(e2.image))) * den
        = num * HashBits

(* C15 as claimed: main.group_entries, given two offers with the same
   normalized title whose images both hash, returns one group of two when
   the hashes differ in 0.05 of their bits or fewer (0.05 is not a whole
   number of bits), and two singleton groups when they differ in 0.25 of
   their bits. *)
C15_MainTitleAloneInsufficient ==
    (/\ grouped_offers.status = "returned"
     /\ Len(entries) = 2
     /\ RemoveSpecialCharacters(entries[1].title)
            = RemoveSpecialCharacters(entries[2].title)
     /\ \A i \in DOMAIN entries :
            entries[i].image # None /\ ~HashFails(Get(entries[i].image)))
    => /\ (\E n \in 0..5 : MainDistance(entries[1], entries[2], n, 100))
            => Len(grouped_offers.value) = 1
       /\ MainDistance(entries[1], entries[2], 25, 100)
            => /\ Len(grouped_offers.value) = 2
               /\ \A g \in DOMAIN grouped_offers.value :
                      Len(grouped_offers.value[g]) = 1

\* the raw entries standing in the emitted groups
Emitted(gs) == UNION {Range(gs[g]) : g \in DOMAIN gs}

(* C21: in LzxScrapper._group no member of an emitted group is in the
   working list, so none re-enters it and no later seed is compared against
   one; and every step leaves the groups emitted so far as they are, adding
   at most a new group behind them. *)
C21_SinglePass ==
    /\ [](\A i \in DOMAIN remaining : remaining[i].raw \notin Emitted(groups))
    /\ [][/\ Len(groups') >= Len(groups)
          /\ \A g \in DOMAIN groups : groups'[g] = groups[g]
          /\ \A i \in DOMAIN remaining' :
                remaining'[i].raw \notin Emitted(groups)]_vars

C21_Witness ==
    /\ pc = "loop"
    /\ Len(entries) = 3
    /\ Len(groups) = 1
    /\ Len(groups[1]) = 2
    /\ Len(remaining) = 1
    /\ NormalizeTitle(remaining[1].raw.title) = NormalizeTitle(groups[1][1].title)

\* the working list and the list of groups of the running call
WorkList == heap[Get(frame).work].items
GroupList == heap[Get(frame).groups].items

(* C22: in LzxScrapper._group and main.group_entries every iteration makes
   the working list shorter; the groups emitted so far and the offers still
   in the working list never outnumber the n offers of the input, so there
   are at most n iterations; a returned grouping has at most n groups, at
   least one when n > 0, none of them empty; and a call that has started
   ends. *)
C22_LoopTerminates ==
    /\ [](frame # None => Len(GroupList) + Len(WorkList) <= Len(entries))
    /\ [](\A k \in ReturnedCalls :
            LET gs == heap[results[k].value].items
            IN /\ Len(gs) <= Len(entries)
               /\ entries # <<>> => Len(gs) >= 1
               /\ \A g \in Range(gs) : heap[g].items # <<>>)
    /\ [][(frame # None /\ frame' # None /\ frame' # frame) =>
            Len(heap'[Get(frame').work].items) < Len(WorkList)]_vars
    /\ (frame # None ~> frame = None)

C22_Witness ==
    /\ Len(entries) = 3
    /\ frame = None
    /\ Cardinality(ReturnedCalls) = 1
    /\ \A k \in ReturnedCalls : Len(heap[results[k].value].items) = 3
    /\ program = "lzx_parser"

C11_Witness ==
    /\ pc = "returned"
    /\ Len(entries) = 3
    /\ similarity_threshold = IMAGE_SIMILARITY_THRESHOLD
    /\ HashFailsFor(entries[3])
    /\ \E i \in 1..2 : entries[i].image = Some("img26")
    /\ \E i \in 1..2 : entries[i].image = Some("img0")
    /\ Len(groups) = 1

====
